---- MODULE Spec2Model ----
(***************************************************************************)
(* dalytic: the health-metrics tracker of src/api.  The session holds one  *)
(* SQLite database (table health_data); form submissions and deletions     *)
(* change it, and the analysis request turns its rows into a correlation   *)
(* chart and one chart series per metric.                                  *)
(*                                                                         *)
(* Dates are day numbers (the code compares 'YYYY-MM-DD' strings, whose    *)
(* lexicographic order is the calendar order).  Values are integers and a  *)
(* coefficient is held in hundredths, the unit round(corr, 2) keeps; the   *)
(* arithmetic is exact (statistics.mean is exact, sums are rationals).     *)
(* The table is the sequence of its rows in rowid order, which is the      *)
(* order 'SELECT ... FROM health_data' returns them in; ids are never      *)
(* reused (AUTOINCREMENT), so a row is named by its position.              *)
(*                                                                         *)
(* in_session: 'custom_db' in session; health_data: the rows of the table  *)
(* held in the session; deleted: the delete requests served on the current *)
(* database (bounded by MaxDeletes); response: what the last request       *)
(* answered.  xs, ys, coef: two value lists and the coefficient the pair   *)
(* loop computes for them (SpecCorr).  stored: what session['custom_db']   *)
(* holds ("absent", "empty" for a file of no bytes, "created" by           *)
(* use_empty_db, "uploaded"); upload: the file of the request, when the    *)
(* last request was an upload.  conns: for each of the requests that are   *)
(* served at the same time (SpecConc), how far it is and the rows of the   *)
(* in-memory database get_db_connection gave it.                           *)
(***************************************************************************)
EXTENDS Integers, Sequences, FiniteSets, TLC

VARIABLES in_session, stored, health_data, deleted, upload, response, xs, ys, coef,
          conns

vars ==
  <<in_session, stored, health_data, deleted, upload, response, xs, ys, coef, conns>>

(* ------------------------------ bounds --------------------------------- *)
MaxDate == 3
MaxRows == 8
MaxDeletes == 1
MaxLen == 3
MaxValue == 2
MaxHundredths == 150

Dates == 1..MaxDate

(* --------------------------- configuration ----------------------------- *)
METRIC_NAMES == <<"Resting Heart Rate", "Sleep Hours", "Calories", "Mood">>

METRIC_CONFIG ==
  [n \in {METRIC_NAMES[i] : i \in 1..Len(METRIC_NAMES)} |->
     IF n = "Mood" THEN [type |-> "slider", min |-> 1, max |-> 5]
                   ELSE [type |-> "number", min |-> 0, max |-> 0]]

Row(d, n, v) == [date |-> d, name |-> n, value |-> v]

(* ------------------------- Python dict and list ------------------------ *)
(* A dict is the sequence of its items in insertion order.                 *)
DictHas(d, k) == \E i \in 1..Len(d) : d[i].k = k

DictGet(d, k) == d[CHOOSE i \in 1..Len(d) : d[i].k = k].v

DictPut(d, k, v) ==
  IF DictHas(d, k)
    THEN [i \in 1..Len(d) |-> IF d[i].k = k THEN [k |-> k, v |-> v] ELSE d[i]]
    ELSE Append(d, [k |-> k, v |-> v])

DictKeys(d) == [i \in 1..Len(d) |-> d[i].k]

Range(s) == {s[i] : i \in 1..Len(s)}

Max(a, b) == IF a >= b THEN a ELSE b

MinOf(S) == CHOOSE m \in S : \A e \in S : m <= e

MaxOf(S) == CHOOSE m \in S : \A e \in S : m >= e

RECURSIVE SortedSet(_)
SortedSet(S) ==
  IF S = {} THEN <<>> ELSE <<MinOf(S)>> \o SortedSet(S \ {MinOf(S)})

RECURSIVE Sum(_)
Sum(s) == IF s = <<>> THEN 0 ELSE Head(s) + Sum(Tail(s))

(* --------------------- calculate_correlations -------------------------- *)
(* metrics: dict date -> dict name -> value; a later row of the same date  *)
(* and name overwrites the value and keeps the item's position.            *)
RECURSIVE group_by_date(_, _)
group_by_date(data, n) ==
  IF n = 0 THEN <<>>
  ELSE LET metrics == group_by_date(data, n - 1)
           r == data[n]
           row == IF DictHas(metrics, r.date) THEN DictGet(metrics, r.date) ELSE <<>>
       IN  DictPut(metrics, r.date, DictPut(row, r.name, r.value))

(* variant: any(...) in place of all(...) *)
RowComplete_any(row) == \E k \in DOMAIN METRIC_CONFIG : DictHas(row, k)

(* all(k in row for k in METRIC_CONFIG) *)
RowComplete(row) == \A k \in DOMAIN METRIC_CONFIG : DictHas(row, k)

(* for k, v in row.items(): aligned.setdefault(k, []).append(v) *)
RECURSIVE append_row(_, _, _)
append_row(aligned, row, n) ==
  IF n = 0 THEN aligned
  ELSE LET a == append_row(aligned, row, n - 1)
           k == row[n].k
           old == IF DictHas(a, k) THEN DictGet(a, k) ELSE <<>>
       IN  DictPut(a, k, Append(old, row[n].v))

(* the loop over dates = sorted(metrics.keys()) *)
RECURSIVE align(_, _, _)
align(metrics, dates, n) ==
  IF n = 0 THEN <<>>
  ELSE LET a == align(metrics, dates, n - 1)
           row == DictGet(metrics, dates[n])
       IN  IF RowComplete(row) THEN append_row(a, row, Len(row)) ELSE a

aligned_of(data) ==
  LET metrics == group_by_date(data, Len(data))
      dates == SortedSet(Range(DictKeys(metrics)))
  IN  align(metrics, dates, Len(dates))

(* len(x) * (a - mean(x)) for every a of x: the deviations, scaled by the  *)
(* length so that they stay integers.                                      *)
dev(x) == [i \in 1..Len(x) |-> Len(x) * x[i] - Sum(x)]

(* zip(x, y) stops at the shorter list *)
zip_len(x, y) == IF Len(x) <= Len(y) THEN Len(x) ELSE Len(y)

(* len(x) * len(y) * cov *)
cov(x, y) == Sum([i \in 1..zip_len(x, y) |-> dev(x)[i] * dev(y)[i]])

(* (len(x) * std_x) ** 2 *)
std_sq(x) == Sum([i \in 1..Len(x) |-> dev(x)[i] * dev(x)[i]])

(* round(num / sqrt(den_sq), 2) in hundredths, ties to the even hundredth: *)
(* the result is the number of half steps j - 1/2 the quotient passes,     *)
(* (2j - 1)^2 * den_sq <= 40000 * num^2, compared through the quotient and *)
(* remainder of 40000 * num^2 by den_sq.                                   *)
round2(num, den_sq) ==
  LET q == (40000 * num * num) \div den_sq
      r == (40000 * num * num) % den_sq
      passed == {j \in 1..MaxHundredths :
                   \/ (2 * j - 1) * (2 * j - 1) < q
                   \/ (2 * j - 1) * (2 * j - 1) = q /\ r > 0
                   \/ (2 * j - 1) * (2 * j - 1) = q /\ r = 0 /\ j % 2 = 0}
  IN  IF num < 0 THEN 0 - Cardinality(passed) ELSE Cardinality(passed)

(* variant: ... else 1 *)
corr_else_one(x, y) ==
  IF std_sq(x) # 0 /\ std_sq(y) # 0
    THEN round2(cov(x, y), std_sq(x) * std_sq(y))
    ELSE 100

(* variant: cov / (std_x * std_x) *)
corr_std_x_twice(x, y) ==
  IF std_sq(x) # 0 /\ std_sq(y) # 0
    THEN round2(cov(x, y), std_sq(x) * std_sq(x))
    ELSE 0

(* variant: std_y = sum((b - my) ** 2 for b in x) ** 0.5 *)
corr_std_y_over_x(x, y) ==
  LET sq == Sum([i \in 1..Len(x) |-> (Len(y) * x[i] - Sum(y)) * (Len(y) * x[i] - Sum(y))])
  IN  IF std_sq(x) # 0 /\ sq # 0
        THEN round2(cov(x, y), std_sq(x) * sq)
        ELSE 0

(* corr = cov / (std_x * std_y) if std_x and std_y else 0; round(corr, 2) *)
corr(x, y) ==
  IF std_sq(x) # 0 /\ std_sq(y) # 0
    THEN round2(cov(x, y), std_sq(x) * std_sq(y))
    ELSE 0

(* variants: the threshold off by one, either way *)
enough_three(x, y) == ~(Len(x) < 3 \/ Len(y) < 3)

enough_one(x, y) == ~(Len(x) < 1 \/ Len(y) < 1)

(* if len(x) < 2 or len(y) < 2: continue *)
enough(x, y) == ~(Len(x) < 2 \/ Len(y) < 2)

(* variant: for j in range(len(keys)), skipping only j == i *)
index_pairs_both(n) ==
  SelectSeq([k \in 1..(n * n) |-> <<((k - 1) \div n) + 1, ((k - 1) % n) + 1>>],
            LAMBDA p : p[1] # p[2])

(* for i in range(len(keys)): for j in range(i + 1, len(keys)) *)
index_pairs(n) ==
  SelectSeq([k \in 1..(n * n) |-> <<((k - 1) \div n) + 1, ((k - 1) % n) + 1>>],
            LAMBDA p : p[1] < p[2])

label(m1, m2) == m1 \o " vs " \o m2

(* variant: a descending sort that turns the order of equal values round *)
goes_before_equal(values, new, placed) == values[new] >= values[placed]

(* sorted(range(len(values)), key=lambda k: values[k], reverse=True): an   *)
(* index goes behind every index already placed whose value is not smaller *)
goes_before(values, new, placed) == values[new] > values[placed]

RECURSIVE sorted_indices(_, _)
sorted_indices(values, n) ==
  IF n = 0 THEN <<>>
  ELSE LET s == sorted_indices(values, n - 1)
           pos == Cardinality({i \in 1..Len(s) : ~goes_before(values, n, s[i])})
       IN  SubSeq(s, 1, pos) \o <<n>> \o SubSeq(s, pos + 1, Len(s))

(* variant: min(...) in place of max(...) *)
max_label_length_min(metric_pairs) ==
  IF metric_pairs = <<>> THEN 10
  ELSE MinOf({Len(metric_pairs[i]) : i \in 1..Len(metric_pairs)})

(* max((len(l) for l in metric_pairs), default=10) *)
max_label_length(metric_pairs) ==
  IF metric_pairs = <<>> THEN 10
  ELSE MaxOf({Len(metric_pairs[i]) : i \in 1..Len(metric_pairs)})

(* margin = max(100, max_label_length * 8) *)
margin_of(metric_pairs) == Max(100, max_label_length(metric_pairs) * 8)

calculate_correlations(data) ==
  LET aligned == aligned_of(data)
      keys == DictKeys(aligned)
      kept == SelectSeq(index_pairs(Len(keys)),
                LAMBDA p : enough(aligned[p[1]].v, aligned[p[2]].v))
      metric_pairs == [k \in 1..Len(kept) |-> label(keys[kept[k][1]], keys[kept[k][2]])]
      correlation_values ==
        [k \in 1..Len(kept) |-> corr(aligned[kept[k][1]].v, aligned[kept[k][2]].v)]
      order == sorted_indices(correlation_values, Len(correlation_values))
      sorted_pairs == [k \in 1..Len(order) |-> metric_pairs[order[k]]]
      sorted_values == [k \in 1..Len(order) |-> correlation_values[order[k]]]
  IN  [metric_pairs |-> sorted_pairs,
       correlation_values |-> sorted_values,
       margin |-> margin_of(sorted_pairs)]

(* ------------------------------ analysis ------------------------------- *)
(* entries.setdefault(name, []).append((date, float(value))) *)
RECURSIVE group_by_name(_, _)
group_by_name(data, n) ==
  IF n = 0 THEN <<>>
  ELSE LET entries == group_by_name(data, n - 1)
           r == data[n]
           old == IF DictHas(entries, r.name) THEN DictGet(entries, r.name) ELSE <<>>
       IN  DictPut(entries, r.name, Append(old, <<r.date, r.value>>))

(* the order of (date, value) tuples *)
tuple_less(a, b) == a[1] < b[1] \/ (a[1] = b[1] /\ a[2] < b[2])

(* variant: the tuples in the order of the rows *)
sorted_points_as_read(values, n) == SubSeq(values, 1, n)

(* sorted(values) *)
RECURSIVE sorted_points(_, _)
sorted_points(values, n) ==
  IF n = 0 THEN <<>>
  ELSE LET s == sorted_points(values, n - 1)
           pos == Cardinality({i \in 1..Len(s) : ~tuple_less(values[n], s[i])})
       IN  SubSeq(s, 1, pos) \o <<values[n]>> \o SubSeq(s, pos + 1, Len(s))

(* dates and vals unzipped from sorted(values): the trace of the figure *)
figure_of(metric, values) ==
  LET pts == sorted_points(values, Len(values))
  IN  [name |-> metric,
       x |-> [i \in 1..Len(pts) |-> pts[i][1]],
       y |-> [i \in 1..Len(pts) |-> pts[i][2]]]

figures_of(data) ==
  LET entries == group_by_name(data, Len(data))
  IN  [i \in 1..Len(entries) |-> figure_of(entries[i].k, entries[i].v)]

(* round(n / d, 2 digits) for d > 0 and n already in hundredths: the        *)
(* nearest integer to n / d, a tie going to the even one                   *)
round_div(n, d) ==
  LET q == n \div d
      r == n % d
  IN  IF 2 * r < d THEN q
      ELSE IF 2 * r > d THEN q + 1
      ELSE IF q % 2 = 0 THEN q ELSE q + 1

(* variant: ... else 1 *)
normalize_else_one(value, min_val, max_val) ==
  IF max_val # min_val
    THEN round_div(100 * (value - min_val), max_val - min_val)
    ELSE 100

(* normalize(value, min_val, max_val), in hundredths *)
normalize(value, min_val, max_val) ==
  IF max_val # min_val
    THEN round_div(100 * (value - min_val), max_val - min_val)
    ELSE 0

(* variant: min(vals), max(vals) for every type of metric *)
bounds_of_data(metric, vals) == <<MinOf(Range(vals)), MaxOf(Range(vals))>>

(* min_v, max_v: the configured bounds of a slider, else those of the data *)
bounds_of(metric, vals) ==
  IF METRIC_CONFIG[metric].type = "slider"
    THEN <<METRIC_CONFIG[metric].min, METRIC_CONFIG[metric].max>>
    ELSE <<MinOf(Range(vals)), MaxOf(Range(vals))>>

(* the trace of the metric in the combined figure *)
normalized_trace(metric, values) ==
  LET pts == sorted_points(values, Len(values))
      vals == [i \in 1..Len(pts) |-> pts[i][2]]
      b == bounds_of(metric, vals)
  IN  [name |-> metric,
       x |-> [i \in 1..Len(pts) |-> pts[i][1]],
       y |-> [i \in 1..Len(vals) |-> normalize(vals[i], b[1], b[2])]]

combined_of(data) ==
  LET entries == group_by_name(data, Len(data))
  IN  [i \in 1..Len(entries) |-> normalized_trace(entries[i].k, entries[i].v)]

(* The y lists of the traces of a chart payload; a cell tells whether the  *)
(* value is an int or a float.  A figure trace holds numbers, a bar of the *)
(* correlation chart holds its label ("y": [l]).                           *)
number_cells(trace) == [i \in 1..Len(trace.y) |-> [numeric |-> TRUE]]

payload_of_traces(traces) == [t \in 1..Len(traces) |-> number_cells(traces[t])]

payload_of_chart(chart) == [k \in 1..Len(chart.metric_pairs) |-> <<[numeric |-> FALSE]>>]

(* variant: len(numeric_values) >= 1 *)
has_enough_data_one(payload) ==
  \E t \in 1..Len(payload) :
    Cardinality({i \in 1..Len(payload[t]) : payload[t][i].numeric}) >= 1

(* _has_enough_data(graph) *)
has_enough_data(payload) ==
  \E t \in 1..Len(payload) :
    Cardinality({i \in 1..Len(payload[t]) : payload[t][i].numeric}) >= 2

(* has_data: the combined figure, the correlation chart or any figure *)
has_data_of(chart, figures, combined) ==
  \/ has_enough_data(payload_of_traces(combined))
  \/ has_enough_data(payload_of_chart(chart))
  \/ \E g \in 1..Len(figures) : has_enough_data(payload_of_traces(<<figures[g]>>))

NoChart == [metric_pairs |-> <<>>, correlation_values |-> <<>>, margin |-> 0]

Reply(kind, to, chart, figures) ==
  [kind |-> kind, to |-> to, chart |-> chart, figures |-> figures,
   combined |-> <<>>, num_graphs |-> 0, has_data |-> FALSE]

(* the page rendered from the charts: render_template('analysis.html', ...) *)
Page(chart, figures, combined) ==
  [Reply("page", "", chart, figures) EXCEPT
     !.combined = combined,
     !.num_graphs = Len(figures),
     !.has_data = has_data_of(chart, figures, combined)]

Redirect(to) == Reply("redirect", to, NoChart, <<>>)

(* METRIC_CONFIG[metric] raises KeyError for a name that is not configured *)
unknown_metric(data) == \E i \in 1..Len(data) : data[i].name \notin DOMAIN METRIC_CONFIG

(* variant: no "if not data" branch *)
analysis_unchecked(data) ==
  IF unknown_metric(data)
    THEN Reply("error", "", calculate_correlations(data), <<>>)
    ELSE Page(calculate_correlations(data), figures_of(data), combined_of(data))

(* what the analysis request computes from the rows of the table; chart is *)
(* the value calculate_correlations returned before the figures are built  *)
analysis(data) ==
  IF data = <<>> THEN Reply("placeholder", "", NoChart, <<>>)
  ELSE IF unknown_metric(data)
    THEN Reply("error", "", calculate_correlations(data), <<>>)
    ELSE Page(calculate_correlations(data), figures_of(data), combined_of(data))

(* ------------------------------ requests ------------------------------- *)
(* the values one form submission posts, one per configured metric *)
FormInputs ==
  { [n \in DOMAIN METRIC_CONFIG |->
       CASE n = "Resting Heart Rate" -> v[1] [] n = "Sleep Hours" -> v[2]
         [] n = "Calories" -> v[3] [] OTHER -> v[4]] :
    v \in { <<1, 6, 2, 3>>, <<2, 8, 2, 5>>, <<4, 7, 1, 0>> } }

(* the tables of the database files a user uploads *)
ScenarioFile ==
  << Row(1, "Mood", 3), Row(2, "Mood", 5),
     Row(1, "Sleep Hours", 6), Row(2, "Sleep Hours", 8) >>

StepsFile ==
  << Row(1, "Resting Heart Rate", 1), Row(1, "Sleep Hours", 6),
     Row(1, "Calories", 2), Row(1, "Mood", 3),
     Row(2, "Resting Heart Rate", 2), Row(2, "Sleep Hours", 8),
     Row(2, "Calories", 2), Row(2, "Mood", 5), Row(2, "Steps", 9),
     Row(3, "Resting Heart Rate", 4), Row(3, "Sleep Hours", 7),
     Row(3, "Calories", 1), Row(3, "Mood", 0), Row(3, "Steps", 4) >>

Files == {ScenarioFile, StepsFile}

(* The name of an uploaded file is the sequence of its characters. *)
ALLOWED_EXTENSIONS == { <<"s", "q", "l", "i", "t", "e">>, <<"d", "b">> }

(* str.lower(), on the letters the file names use *)
lower_char(c) ==
  CASE c = "D" -> "d" [] c = "B" -> "b" [] c = "S" -> "s" [] c = "Q" -> "q"
    [] c = "L" -> "l" [] c = "I" -> "i" [] c = "T" -> "t" [] c = "E" -> "e"
    [] OTHER -> c

lower(str) == [i \in 1..Len(str) |-> lower_char(str[i])]

(* filename.rsplit('.', 1)[1]: what follows the last dot *)
after_last_dot(filename) ==
  SubSeq(filename, MaxOf({i \in 1..Len(filename) : filename[i] = "."}) + 1, Len(filename))

(* variant: filename.lower().endswith(('sqlite', 'db')) *)
allowed_file_endswith(filename) ==
  \E e \in ALLOWED_EXTENSIONS :
    /\ Len(filename) >= Len(e)
    /\ lower(SubSeq(filename, Len(filename) - Len(e) + 1, Len(filename))) = e

(* '.' in filename and filename.rsplit('.', 1)[1].lower() in ALLOWED_EXTENSIONS *)
allowed_file(filename) ==
  /\ \E i \in 1..Len(filename) : filename[i] = "."
  /\ lower(after_last_dot(filename)) \in ALLOWED_EXTENSIONS

Filenames ==
  { <<>>,
    <<"d", "b">>,
    <<"a", ".", "D", "b">>,
    <<"a", ".", "d", "b", ".", "t", "x", "t">>,
    <<"a", ".", "t", ".", "s", "q", "l", "i", "t", "e">> }

(* what an uploaded file holds: the rows of its table, or no byte at all *)
Contents ==
  {[bytes_empty |-> FALSE, rows |-> f] : f \in Files}
    \cup {[bytes_empty |-> TRUE, rows |-> <<>>]}

NoUpload == [given |-> FALSE, filename |-> <<>>, posted |-> FALSE]

(* the values an edit of the entries table sends *)
UpdateValues == {5}

UpdateFields == {"metric_value", "date"}

(* the requests served at the same time, none of them started *)
Requests == 1..2

NoConns ==
  [r \in Requests |-> [pc |-> "idle", rows |-> <<>>, added |-> <<>>, removed |-> <<>>]]

Init ==
  /\ in_session = FALSE
  /\ stored = "absent"
  /\ health_data = <<>>
  /\ deleted = 0
  /\ upload = NoUpload
  /\ response = Reply("none", "", NoChart, <<>>)
  /\ xs = <<>>
  /\ ys = <<>>
  /\ coef = [done |-> FALSE, reported |-> FALSE, value |-> 0]
  /\ conns = NoConns

(* get_db_connection raises RuntimeError: session.get('custom_db') is empty *)
no_database == stored = "empty"

(* require_db: without a database in the session the request is redirected *)
RequireDb ==
  /\ ~in_session
  /\ response' = Redirect("upload_db")
  /\ upload' = NoUpload
  /\ UNCHANGED <<in_session, stored, health_data, deleted, xs, ys, coef, conns>>

UseEmptyDb ==
  /\ in_session' = TRUE
  /\ stored' = "created"
  /\ health_data' = <<>>
  /\ deleted' = 0
  /\ upload' = NoUpload
  /\ response' = Redirect("form")
  /\ UNCHANGED <<xs, ys, coef, conns>>

(* POST /upload *)
UploadDb ==
  /\ \E given \in BOOLEAN :
       IF ~given
         THEN /\ upload' = [given |-> FALSE, filename |-> <<>>, posted |-> TRUE]
              /\ response' = Redirect("upload_db")
              /\ UNCHANGED <<in_session, stored, health_data, deleted>>
         ELSE \E filename \in Filenames :
                /\ upload' = [given |-> TRUE, filename |-> filename, posted |-> TRUE]
                /\ IF filename = <<>>
                     THEN /\ response' = Redirect("upload_db")
                          /\ UNCHANGED <<in_session, stored, health_data, deleted>>
                     ELSE IF allowed_file(filename)
                       THEN \E content \in Contents :
                              /\ in_session' = TRUE
                              /\ stored' = IF content.bytes_empty THEN "empty" ELSE "uploaded"
                              /\ health_data' = content.rows
                              /\ deleted' = 0
                              /\ response' = Redirect("analysis")
                       ELSE /\ response' = Reply("upload_page", "", NoChart, <<>>)
                            /\ UNCHANGED <<in_session, stored, health_data, deleted>>
  /\ UNCHANGED <<xs, ys, coef, conns>>

ResetDb ==
  /\ in_session
  /\ in_session' = FALSE
  /\ stored' = "absent"
  /\ health_data' = <<>>
  /\ deleted' = 0
  /\ upload' = NoUpload
  /\ response' = Redirect("analysis")
  /\ UNCHANGED <<xs, ys, coef, conns>>

(* variant: the request returns without writing the database back *)
backup_db_to_session_skipped(custom_db, db_connection) == custom_db

(* session['custom_db'] after backup_db_to_session(db_connection), given   *)
(* its value before the call: the bytes of the in-memory database          *)
backup_db_to_session(custom_db, db_connection) == db_connection

(* the rows one form submission inserts, in the order of METRIC_CONFIG *)
form_rows(date, values) ==
  [i \in 1..Len(METRIC_NAMES) |-> Row(date, METRIC_NAMES[i], values[METRIC_NAMES[i]])]

(* the table after the inserts of one form submission *)
insert_rows(data, date, values) == data \o form_rows(date, values)

(* POST /form *)
Form ==
  \E date \in Dates, values \in FormInputs :
    /\ in_session
    /\ upload' = NoUpload
    /\ IF no_database
         THEN /\ response' = Redirect("upload_db")
              /\ UNCHANGED health_data
         ELSE /\ Len(health_data) + Len(METRIC_NAMES) <= MaxRows
              /\ health_data' = backup_db_to_session(health_data,
                                    insert_rows(health_data, date, values))
              /\ response' = Redirect("analysis")
    /\ UNCHANGED <<in_session, stored, deleted, xs, ys, coef, conns>>

(* DELETE FROM health_data WHERE id = ?: the row at position i *)
delete_row(data, i) == SubSeq(data, 1, i - 1) \o SubSeq(data, i + 1, Len(data))

DeleteEntry ==
  /\ in_session
  /\ upload' = NoUpload
  /\ IF no_database
       THEN /\ response' = Redirect("upload_db")
            /\ UNCHANGED <<health_data, deleted>>
       ELSE \E i \in 1..Len(health_data) :
              /\ deleted < MaxDeletes
              /\ health_data' = backup_db_to_session(health_data,
                                    delete_row(health_data, i))
              /\ deleted' = deleted + 1
              /\ response' = Redirect("entries")
  /\ UNCHANGED <<in_session, stored, xs, ys, coef, conns>>

(* variant: UPDATE health_data SET metric_value = ? without WHERE *)
update_row_all(data, i, value) ==
  [j \in 1..Len(data) |-> [data[j] EXCEPT !.value = value]]

(* UPDATE health_data SET metric_value = ? WHERE id = ? *)
update_row(data, i, value) ==
  IF i \in 1..Len(data) THEN [data EXCEPT ![i].value = value] ELSE data

(* update_entry(entry_id) with request.json = {field, value}; entry_id is  *)
(* the position of the row, 0 an id no row has.  deleted counts the edits  *)
(* of rows, deletions and updates alike.                                   *)
update_entry(entry_id, field, new_value) ==
  /\ in_session
  /\ upload' = NoUpload
  /\ IF field # "metric_value"
       THEN /\ response' = Reply("bad_request", "", NoChart, <<>>)
            /\ UNCHANGED <<health_data, deleted>>
       ELSE IF no_database
         THEN /\ response' = Reply("server_error", "", NoChart, <<>>)
              /\ UNCHANGED <<health_data, deleted>>
         ELSE /\ entry_id \in 1..Len(health_data) => deleted < MaxDeletes
              /\ health_data' = backup_db_to_session(health_data,
                                    update_row(health_data, entry_id, new_value))
              /\ deleted' = IF entry_id \in 1..Len(health_data)
                              THEN deleted + 1 ELSE deleted
              /\ response' = Reply("success", "", NoChart, <<>>)
  /\ UNCHANGED <<in_session, stored, xs, ys, coef, conns>>

(* POST /update_entry/<id> *)
UpdateEntry ==
  \E entry_id \in 0..Len(health_data), field \in UpdateFields, new_value \in UpdateValues :
    update_entry(entry_id, field, new_value)

(* variant: a request that writes the rows back, those of the first date   *)
(* first                                                                    *)
rows_after_analysis_sorted(data) ==
  IF data = <<>> THEN data
  ELSE LET first == MinOf({data[i].date : i \in 1..Len(data)})
       IN  SelectSeq(data, LAMBDA r : r.date = first)
             \o SelectSeq(data, LAMBDA r : r.date # first)

(* the table after an analysis request: the connection is closed without   *)
(* commit and without backup_db_to_session                                  *)
rows_after_analysis(data) == data

(* GET /analysis *)
Analysis ==
  /\ in_session
  /\ upload' = NoUpload
  /\ IF no_database
       THEN /\ response' = Redirect("upload_db")
            /\ UNCHANGED health_data
       ELSE /\ response' = analysis(health_data)
            /\ health_data' = rows_after_analysis(health_data)
  /\ UNCHANGED <<in_session, stored, deleted, xs, ys, coef, conns>>

Next ==
  \/ RequireDb
  \/ UseEmptyDb
  \/ UploadDb
  \/ ResetDb
  \/ Form
  \/ DeleteEntry
  \/ UpdateEntry
  \/ Analysis

Spec == Init /\ [][Next]_vars

(* ------------- the coefficient as a function of two lists -------------- *)
Lists == UNION {[1..n -> 0..MaxValue] : n \in 1..MaxLen}

InitCorr ==
  /\ in_session = FALSE
  /\ stored = "absent"
  /\ health_data = <<>>
  /\ deleted = 0
  /\ upload = NoUpload
  /\ response = Reply("none", "", NoChart, <<>>)
  /\ xs \in Lists
  /\ ys \in Lists
  /\ coef = [done |-> FALSE, reported |-> FALSE, value |-> 0]
  /\ conns = NoConns

(* the body of the loop over the pairs of keys, for x = xs and y = ys *)
Correlate ==
  /\ ~coef.done
  /\ coef' = IF enough(xs, ys)
               THEN [done |-> TRUE, reported |-> TRUE, value |-> corr(xs, ys)]
               ELSE [done |-> TRUE, reported |-> FALSE, value |-> 0]
  /\ UNCHANGED <<in_session, stored, health_data, deleted, upload, response, xs, ys, conns>>

NextCorr == Correlate

SpecCorr == InitCorr /\ [][NextCorr]_vars

(* --------- two requests of one session served at the same time --------- *)
(* The session is read when a request starts and written when backup_db_   *)
(* to_session runs; nothing orders the two requests between these points.  *)
InitConc ==
  /\ in_session = TRUE
  /\ stored = "created"
  /\ health_data \in {form_rows(1, values) : values \in FormInputs}
  /\ deleted = 0
  /\ upload = NoUpload
  /\ response = Reply("none", "", NoChart, <<>>)
  /\ xs = <<>>
  /\ ys = <<>>
  /\ coef = [done |-> FALSE, reported |-> FALSE, value |-> 0]
  /\ conns = NoConns

(* conn = get_db_connection(): the session bytes copied into memory *)
GetDbConnection(r) ==
  /\ conns[r].pc = "idle"
  /\ conns' = [conns EXCEPT ![r].pc = "loaded", ![r].rows = health_data]
  /\ UNCHANGED <<in_session, stored, health_data, deleted, upload, response, xs, ys, coef>>

(* POST /form from the inserts to the return; added: the rows inserted *)
FormCommit(r) ==
  \E date \in Dates, values \in FormInputs :
    /\ conns[r].pc = "loaded"
    /\ health_data' = backup_db_to_session(health_data,
                          insert_rows(conns[r].rows, date, values))
    /\ conns' = [conns EXCEPT ![r].pc = "done", ![r].added = form_rows(date, values)]
    /\ response' = Redirect("analysis")
    /\ UNCHANGED <<in_session, stored, deleted, upload, xs, ys, coef>>

(* delete_entry from the DELETE to the return; removed: the row deleted *)
DeleteCommit(r) ==
  \E i \in 1..Len(conns[r].rows) :
    /\ conns[r].pc = "loaded"
    /\ health_data' = backup_db_to_session(health_data, delete_row(conns[r].rows, i))
    /\ conns' = [conns EXCEPT ![r].pc = "done", ![r].removed = <<conns[r].rows[i]>>]
    /\ response' = Redirect("entries")
    /\ UNCHANGED <<in_session, stored, deleted, upload, xs, ys, coef>>

NextConc ==
  \E r \in Requests :
    \/ GetDbConnection(r)
    \/ FormCommit(r)
    \/ DeleteCommit(r)

SpecConc == InitConc /\ [][NextConc]_vars

(* ============================== properties ============================= *)
(* The readings of an observation list, stated over sets of dates.         *)
RowsOf(data, d, n) == {i \in 1..Len(data) : data[i].date = d /\ data[i].name = n}

HasReading(data, d, n) == RowsOf(data, d, n) # {}

ReadingAt(data, d, n) == data[MaxOf(RowsOf(data, d, n))].value

DatesIn(data) == {data[i].date : i \in 1..Len(data)}

NamesIn(data) == {data[i].name : i \in 1..Len(data)}

(* the dates on which every metric of METRIC_CONFIG has a reading *)
QualifyingDates(data) ==
  {d \in DatesIn(data) : \A k \in DOMAIN METRIC_CONFIG : HasReading(data, d, k)}

(* the dates on which both metrics have a reading *)
CommonDates(data, a, b) ==
  {d \in DatesIn(data) : HasReading(data, d, a) /\ HasReading(data, d, b)}

(* the readings of metric n on the dates of D, in date order *)
ValuesOver(data, n, D) ==
  LET ds == SortedSet({d \in D : HasReading(data, d, n)})
  IN  [k \in 1..Len(ds) |-> ReadingAt(data, ds[k], n)]

Reported(chart, l) == \E k \in 1..Len(chart.metric_pairs) : chart.metric_pairs[k] = l

CoefOf(chart, l) ==
  chart.correlation_values[CHOOSE k \in 1..Len(chart.metric_pairs) : chart.metric_pairs[k] = l]

(* the analysis request has run calculate_correlations on health_data *)
Computed == response.kind \in {"page", "error"}

Chart == response.chart

(* C1: a date on which some metric of METRIC_CONFIG has no reading          *)
(* contributes nothing: the chart is the chart of the rows of the           *)
(* qualifying dates alone.                                                  *)
QualifyingRows(data) == SelectSeq(data, LAMBDA r : r.date \in QualifyingDates(data))

C1_PartialDatesDropped ==
  Computed => Chart = calculate_correlations(QualifyingRows(health_data))

C1_Witness ==
  /\ Computed
  /\ Chart.metric_pairs # <<>>
  /\ DatesIn(health_data) \ QualifyingDates(health_data) # {}

(* C2 as stated: a pair of metrics with at least 2 dates on which both have *)
(* a reading is reported, with the coefficient of the readings on exactly   *)
(* those dates.                                                             *)
PairOver(chart, data, a, b, D) ==
  \/ /\ Reported(chart, label(a, b))
     /\ CoefOf(chart, label(a, b)) = corr(ValuesOver(data, a, D), ValuesOver(data, b, D))
  \/ /\ Reported(chart, label(b, a))
     /\ CoefOf(chart, label(b, a)) = corr(ValuesOver(data, b, D), ValuesOver(data, a, D))

C2_PairwiseCommonDates ==
  Computed =>
    \A a, b \in NamesIn(health_data) :
      (a # b /\ Cardinality(CommonDates(health_data, a, b)) >= 2)
        => PairOver(Chart, health_data, a, b, CommonDates(health_data, a, b))

(* C2 amended: for two metrics of METRIC_CONFIG the coefficient is computed *)
(* over exactly the dates on which every metric of METRIC_CONFIG has a      *)
(* reading, and the pair is reported whenever there are 2 such dates; the   *)
(* list holding only Mood and Sleep Hours yields no pair.                   *)
C2_PairOverQualifyingDates ==
  Computed =>
    /\ \A a, b \in DOMAIN METRIC_CONFIG :
         (a # b /\ Cardinality(QualifyingDates(health_data)) >= 2)
           => PairOver(Chart, health_data, a, b, QualifyingDates(health_data))
    /\ health_data = ScenarioFile => Chart.metric_pairs = <<>>

C2_Witness ==
  /\ Computed
  /\ QualifyingDates(health_data) = {1, 2}
  /\ ValuesOver(health_data, "Mood", {1, 2}) = <<3, 5>>
  /\ ValuesOver(health_data, "Sleep Hours", {1, 2}) = <<6, 8>>
  /\ Reported(Chart, label("Sleep Hours", "Mood"))
  /\ CoefOf(Chart, label("Sleep Hours", "Mood")) = 100

(* C3: a pair with fewer than 2 qualifying dates on which both metrics have *)
(* a reading is not in the chart, and with fewer than 2 qualifying dates    *)
(* the chart has no pair.                                                   *)
PairDates(data, a, b) == QualifyingDates(data) \cap CommonDates(data, a, b)

C3_ShortPairsOmitted ==
  Computed =>
    /\ \A a, b \in NamesIn(health_data) :
         Cardinality(PairDates(health_data, a, b)) < 2
           => ~Reported(Chart, label(a, b))
    /\ Cardinality(QualifyingDates(health_data)) < 2 => Chart.metric_pairs = <<>>

C3_Witness ==
  /\ response.kind = "page"
  /\ Cardinality(QualifyingDates(health_data)) = 1
  /\ Cardinality(DatesIn(health_data)) >= 2
  /\ Chart.metric_pairs = <<>>

(* C4: a pair with at least 2 qualifying dates of which one metric is       *)
(* constant over those dates is reported with coefficient 0.                *)
Constant(x) == \A i, j \in 1..Len(x) : x[i] = x[j]

ConstantPair(data, a, b) ==
  /\ a # b
  /\ Cardinality(QualifyingDates(data)) >= 2
  /\ \/ Constant(ValuesOver(data, a, QualifyingDates(data)))
     \/ Constant(ValuesOver(data, b, QualifyingDates(data)))

C4_ConstantMetricZero ==
  Computed =>
    \A a, b \in DOMAIN METRIC_CONFIG :
      ConstantPair(health_data, a, b) =>
        \/ Reported(Chart, label(a, b)) /\ CoefOf(Chart, label(a, b)) = 0
        \/ Reported(Chart, label(b, a)) /\ CoefOf(Chart, label(b, a)) = 0

C4_Witness ==
  /\ Computed
  /\ ConstantPair(health_data, "Calories", "Mood")
  /\ ~Constant(ValuesOver(health_data, "Mood", QualifyingDates(health_data)))
  /\ Reported(Chart, label("Calories", "Mood"))
  /\ CoefOf(Chart, label("Calories", "Mood")) = 0
  /\ \E k \in 1..Len(Chart.correlation_values) : Chart.correlation_values[k] # 0

(* C5: the chart is sorted by coefficient, non-increasing; pairs of equal   *)
(* coefficient keep the order in which the loop over the keys generated     *)
(* them; each label still stands beside the coefficient of its two metrics. *)
KeysOf(data) == DictKeys(aligned_of(data))

(* the rank of the pair (keys[i], keys[j]) in the order of generation *)
GenerationRank(data, l) ==
  LET keys == KeysOf(data)
      p == CHOOSE q \in (1..Len(keys)) \X (1..Len(keys)) : label(keys[q[1]], keys[q[2]]) = l
  IN  (p[1] - 1) * Len(keys) + p[2]

LabelMatchesValue(data, l, v) ==
  \E a, b \in NamesIn(data) :
    /\ l = label(a, b)
    /\ v = corr(ValuesOver(data, a, QualifyingDates(data)),
                ValuesOver(data, b, QualifyingDates(data)))

C5_SortedStableMatched ==
  Computed =>
    /\ Len(Chart.metric_pairs) = Len(Chart.correlation_values)
    /\ \A k, m \in 1..Len(Chart.correlation_values) :
         k < m =>
           /\ Chart.correlation_values[k] >= Chart.correlation_values[m]
           /\ Chart.correlation_values[k] = Chart.correlation_values[m]
                => GenerationRank(health_data, Chart.metric_pairs[k])
                     < GenerationRank(health_data, Chart.metric_pairs[m])
    /\ \A k \in 1..Len(Chart.metric_pairs) :
         LabelMatchesValue(health_data, Chart.metric_pairs[k], Chart.correlation_values[k])

C5_Witness ==
  /\ Computed
  /\ \E k, m, n \in 1..Len(Chart.correlation_values) :
       /\ k < m /\ m < n
       /\ Chart.correlation_values[k] = Chart.correlation_values[m]
       /\ Chart.correlation_values[m] > Chart.correlation_values[n]
       /\ GenerationRank(health_data, Chart.metric_pairs[n])
            < GenerationRank(health_data, Chart.metric_pairs[k])

(* C6: no pair of the chart relates a metric to itself, and no unordered    *)
(* pair of metrics is in the chart twice, in either direction.              *)
C6_NoSelfNoDuplicatePairs ==
  Computed =>
    /\ \A a \in NamesIn(health_data) : ~Reported(Chart, label(a, a))
    /\ \A k, m \in 1..Len(Chart.metric_pairs) :
         k # m => Chart.metric_pairs[k] # Chart.metric_pairs[m]
    /\ \A a, b \in NamesIn(health_data) :
         ~(Reported(Chart, label(a, b)) /\ Reported(Chart, label(b, a)))

C6_Witness ==
  /\ Computed
  /\ Len(Chart.metric_pairs) = 10
  /\ Reported(Chart, label("Mood", "Steps"))

(* C7: every coefficient lies in [-1, 1] (in hundredths, [-100, 100]).      *)
C7_CoefficientInRange ==
  (coef.done /\ coef.reported) => (coef.value >= 0 - 100 /\ coef.value <= 100)

C7_Witness ==
  /\ coef.done /\ coef.reported
  /\ Len(xs) # Len(ys)
  /\ coef.value = 0 - 100

(* C8: the coefficient of (x, y) equals the coefficient of (y, x), also     *)
(* when a deviation is zero.                                                *)
C8_Symmetric ==
  (coef.done /\ coef.reported) => coef.value = corr(ys, xs)

C8_Witness ==
  /\ coef.done /\ coef.reported
  /\ xs # ys
  /\ Len(xs) = Len(ys)
  /\ coef.value \notin {0 - 100, 0, 100}

(* C9: the left margin is max(100, 8 * L), L the length of the longest      *)
(* label of the chart; 100 for the empty chart, 240 for L = 30, never       *)
(* below 100.                                                               *)
LongestLabel(chart) ==
  IF chart.metric_pairs = <<>> THEN 0
  ELSE MaxOf({Len(chart.metric_pairs[k]) : k \in 1..Len(chart.metric_pairs)})

C9_Margin ==
  Computed =>
    /\ Chart.margin = Max(100, 8 * LongestLabel(Chart))
    /\ Chart.metric_pairs = <<>> => Chart.margin = 100
    /\ LongestLabel(Chart) = 30 => Chart.margin = 240
    /\ Chart.margin >= 100

C9_Witness ==
  /\ Computed
  /\ LongestLabel(Chart) = 33
  /\ Chart.margin = 264

(* C10: the figures hold one series per metric of the observation list and  *)
(* every series has the date axis min_date..max_date, one point per day.    *)
DateAxis(data) ==
  [k \in 1..(MaxOf(DatesIn(data)) - MinOf(DatesIn(data)) + 1) |-> MinOf(DatesIn(data)) + k - 1]

C10_AlignedSeries ==
  response.kind = "page" =>
    /\ {response.figures[k].name : k \in 1..Len(response.figures)} = NamesIn(health_data)
    /\ Len(response.figures) = Cardinality(NamesIn(health_data))
    /\ \A k \in 1..Len(response.figures) :
         /\ Len(response.figures[k].x) = Len(DateAxis(health_data))
         /\ response.figures[k].x = DateAxis(health_data)

(* C11: forward fill.  For every metric and every date of the axis on or    *)
(* after the metric's first reading, the series of the metric has a point   *)
(* at that date whose value is the metric's most recent reading at or       *)
(* before the date.  Stated for observation lists with one row per          *)
(* (date, metric).                                                          *)
Unique(data) ==
  \A d \in DatesIn(data), n \in NamesIn(data) : Cardinality(RowsOf(data, d, n)) <= 1

LastReadingDate(data, d, n) == MaxOf({e \in DatesIn(data) : e <= d /\ HasReading(data, e, n)})

C11_ForwardFill ==
  (response.kind = "page" /\ Unique(health_data)) =>
    \A k \in 1..Len(response.figures) :
      LET f == response.figures[k]
      IN  \A d \in Range(DateAxis(health_data)) :
            (\E e \in DatesIn(health_data) : e <= d /\ HasReading(health_data, e, f.name))
              => \E i \in 1..Len(f.x) :
                   /\ f.x[i] = d
                   /\ f.y[i] = ReadingAt(health_data,
                                         LastReadingDate(health_data, d, f.name), f.name)

(* C12: every value of every normalized series lies in [0, 1], that is in   *)
(* 0..100 hundredths, whatever the type of the metric and the stored value. *)
C12_NormalizedInUnitInterval ==
  response.kind = "page" =>
    \A k \in 1..Len(response.combined) :
      \A i \in 1..Len(response.combined[k].y) :
        response.combined[k].y[i] \in 0..100

(* the values the rows of metric n hold *)
ValuesOf(data, n) == {data[i].value : i \in {j \in 1..Len(data) : data[j].name = n}}

Abs(n) == IF n < 0 THEN 0 - n ELSE n

(* y hundredths is value v normalized over lo..hi, rounded to 2 digits *)
NormalOf(y, v, lo, hi) ==
  IF hi = lo THEN y = 0 ELSE 2 * Abs((hi - lo) * y - 100 * (v - lo)) <= hi - lo

(* C13 as stated: for a metric whose values are all equal, number or        *)
(* slider, every normalized value is 0.                                     *)
C13_ConstantSeriesZero ==
  response.kind = "page" =>
    \A k \in 1..Len(response.combined) :
      Cardinality(ValuesOf(health_data, response.combined[k].name)) = 1
        => \A i \in 1..Len(response.combined[k].y) : response.combined[k].y[i] = 0

(* C13 amended: for a number metric whose values are all equal every        *)
(* normalized value is 0 and the page is produced (no division by zero); a  *)
(* slider metric whose values all equal v is normalized with its configured *)
(* bounds, every value being (v - min) / (max - min), which is 0 only for   *)
(* v = min.                                                                 *)
C13_ConstantNumberZero ==
  response.kind = "page" =>
    \A k \in 1..Len(response.combined) :
      LET t == response.combined[k]
          c == METRIC_CONFIG[t.name]
      IN  Cardinality(ValuesOf(health_data, t.name)) = 1 =>
            \A i \in 1..Len(t.y) :
              IF c.type = "number"
                THEN t.y[i] = 0
                ELSE \A v \in ValuesOf(health_data, t.name) :
                       NormalOf(t.y[i], v, c.min, c.max)

C13_Witness ==
  /\ response.kind = "page"
  /\ Len(response.combined) = 4
  /\ ValuesOf(health_data, "Calories") = {2}
  /\ ValuesOf(health_data, "Mood") = {3}
  /\ \E k \in 1..Len(response.combined) :
       /\ response.combined[k].name = "Calories"
       /\ response.combined[k].y = <<0, 0>>
  /\ \E k \in 1..Len(response.combined) :
       /\ response.combined[k].name = "Mood"
       /\ response.combined[k].y = <<50, 50>>

(* C14: a slider metric is normalized with the min and max of its           *)
(* configuration whatever the data, a number metric with the minimum and    *)
(* maximum of its own rows: every point of a normalized trace is a row of   *)
(* the metric normalized over those bounds, and every row has its point.    *)
(* Mood (3, 5) gives [0.5, 1.0] and Sleep Hours (6, 8) gives [0.0, 1.0].    *)
BoundsFor(data, n) ==
  IF METRIC_CONFIG[n].type = "slider"
    THEN <<METRIC_CONFIG[n].min, METRIC_CONFIG[n].max>>
    ELSE <<MinOf(ValuesOf(data, n)), MaxOf(ValuesOf(data, n))>>

TraceOf(traces, n) == traces[CHOOSE k \in 1..Len(traces) : traces[k].name = n]

C14_BoundsPerKind ==
  response.kind = "page" =>
    /\ \A k \in 1..Len(response.combined) :
         LET t == response.combined[k]
             b == BoundsFor(health_data, t.name)
             rows == {j \in 1..Len(health_data) : health_data[j].name = t.name}
         IN  /\ Len(t.y) = Cardinality(rows)
             /\ Len(t.x) = Len(t.y)
             /\ \A i \in 1..Len(t.y) :
                  \E j \in rows :
                    /\ health_data[j].date = t.x[i]
                    /\ NormalOf(t.y[i], health_data[j].value, b[1], b[2])
             /\ \A j \in rows :
                  \E i \in 1..Len(t.y) :
                    /\ health_data[j].date = t.x[i]
                    /\ NormalOf(t.y[i], health_data[j].value, b[1], b[2])
    /\ health_data = ScenarioFile =>
         /\ TraceOf(response.combined, "Mood").y = <<50, 100>>
         /\ TraceOf(response.combined, "Sleep Hours").y = <<0, 100>>

C14_Witness ==
  /\ response.kind = "page"
  /\ health_data = ScenarioFile
  /\ Len(response.combined) = 2

(* C15: on an empty observation list the analysis request answers with the *)
(* placeholder page: no figures, no combined figure, no correlation chart, *)
(* zero graphs, nothing computed and no error; and it answers so only on   *)
(* an empty list.                                                          *)
Analysed == response.kind \in {"page", "error", "placeholder"}

C15_EmptyPlaceholder ==
  Analysed =>
    /\ health_data = <<>> <=> response.kind = "placeholder"
    /\ response.kind = "placeholder" =>
         /\ response.chart = NoChart
         /\ response.figures = <<>>
         /\ response.combined = <<>>
         /\ response.num_graphs = 0
         /\ ~response.has_data

C15_Witness ==
  /\ response.kind = "placeholder"
  /\ in_session
  /\ health_data = <<>>

(* C16: has_data is true exactly when some trace of the page's artifacts   *)
(* has 2 or more numeric points, that is when some metric has 2 or more    *)
(* rows (a bar of the correlation chart holds one label and no number);    *)
(* when all rows fall on one day, one row per metric, no figure, nor the   *)
(* combined figure, has a trace of 2 points and has_data is false.         *)
RowCount(data, n) == Cardinality({j \in 1..Len(data) : data[j].name = n})

C16_HasEnoughData ==
  response.kind = "page" =>
    /\ response.has_data <=> \E n \in NamesIn(health_data) : RowCount(health_data, n) >= 2
    /\ response.has_data <=>
         \/ \E k \in 1..Len(response.figures) : Len(response.figures[k].y) >= 2
         \/ \E k \in 1..Len(response.combined) : Len(response.combined[k].y) >= 2
    /\ (Cardinality(DatesIn(health_data)) = 1 /\ Unique(health_data)) =>
         /\ ~response.has_data
         /\ \A k \in 1..Len(response.figures) : Len(response.figures[k].y) = 1
         /\ \A k \in 1..Len(response.combined) : Len(response.combined[k].y) = 1
         /\ response.chart.metric_pairs = <<>>

C16_Witness ==
  /\ response.kind = "page"
  /\ Cardinality(DatesIn(health_data)) = 1
  /\ Unique(health_data)
  /\ response.num_graphs = 4
  /\ ~response.has_data

(* C17: on a database the application created, whatever forms were         *)
(* submitted and whatever rows were deleted or edited, the table holds at  *)
(* most one row for a (date, metric_name) pair.                            *)
C17_OneRowPerDateMetric ==
  stored = "created" =>
    \A d \in Dates, n \in DOMAIN METRIC_CONFIG :
      Cardinality(RowsOf(health_data, d, n)) <= 1

Unusable == ~in_session \/ no_database

GuardedRequest == RequireDb \/ ResetDb \/ Form \/ DeleteEntry \/ UpdateEntry \/ Analysis

C19_RedirectedWithoutDatabase ==
  [][(Unusable /\ GuardedRequest) =>
       /\ response' = Redirect("upload_db")
       /\ health_data' = health_data
       /\ ~in_session' \/ stored' = "empty"]_vars

(* C20: an upload replaces the database of the session exactly when a file *)
(* is given whose name has a dot and whose part after the last dot is      *)
(* 'sqlite' or 'db' in any mix of upper and lower case; an upload without  *)
(* file, with an empty file name or with another extension leaves the      *)
(* session and its database as they were.                                  *)
SameLetter(c, e) ==
  \/ c = e
  \/ <<c, e>> \in { <<"S", "s">>, <<"Q", "q">>, <<"L", "l">>, <<"I", "i">>,
                    <<"T", "t">>, <<"E", "e">>, <<"D", "d">>, <<"B", "b">> }

SpellsExtension(suffix, e) ==
  /\ Len(suffix) = Len(e)
  /\ \A i \in 1..Len(e) : SameLetter(suffix[i], e[i])

AllowedName(f) ==
  \E k \in 1..Len(f) :
    /\ f[k] = "."
    /\ \A j \in (k + 1)..Len(f) : f[j] # "."
    /\ \/ SpellsExtension(SubSeq(f, k + 1, Len(f)), <<"s", "q", "l", "i", "t", "e">>)
       \/ SpellsExtension(SubSeq(f, k + 1, Len(f)), <<"d", "b">>)

C20_UploadReplacesOnlyAllowed ==
  [][UploadDb =>
       IF upload'.given /\ upload'.filename # <<>> /\ AllowedName(upload'.filename)
         THEN /\ in_session'
              /\ \E content \in Contents :
                   /\ health_data' = content.rows
                   /\ stored' = IF content.bytes_empty THEN "empty" ELSE "uploaded"
              /\ response' = Redirect("analysis")
         ELSE /\ UNCHANGED <<in_session, stored, health_data>>
              /\ response'.kind \in {"redirect", "upload_page"}
              /\ response'.kind = "redirect" => response'.to = "upload_db"]_vars

C20_Witness ==
  /\ upload.posted
  /\ upload.given
  /\ upload.filename = <<"a", ".", "d", "b", ".", "t", "x", "t">>
  /\ response.kind = "upload_page"
  /\ stored = "uploaded"
  /\ health_data = StepsFile

(* C21: a form submission, a deletion and an edit that succeed leave their *)
(* change in the database of the session (the submission's rows appended,  *)
(* the deleted row gone, the edited value in place), and the analysis      *)
(* request that follows sees every row of that database: no committed      *)
(* change is lost between requests.                                        *)
PointsShown(figures) == Sum([k \in 1..Len(figures) |-> Len(figures[k].y)])

C21_ChangesWrittenBack ==
  [][/\ (Form /\ response' = Redirect("analysis")) =>
          /\ Len(health_data') = Len(health_data) + Len(METRIC_NAMES)
          /\ SubSeq(health_data', 1, Len(health_data)) = health_data
          /\ \E d \in Dates :
               \A k \in 1..Len(METRIC_NAMES) :
                 /\ health_data'[Len(health_data) + k].date = d
                 /\ health_data'[Len(health_data) + k].name = METRIC_NAMES[k]
     /\ (DeleteEntry /\ response' = Redirect("entries")) =>
          /\ Len(health_data') = Len(health_data) - 1
          /\ \E i \in 1..Len(health_data) :
               /\ SubSeq(health_data', 1, i - 1) = SubSeq(health_data, 1, i - 1)
               /\ SubSeq(health_data', i, Len(health_data'))
                    = SubSeq(health_data, i + 1, Len(health_data))
     /\ \A i \in 1..Len(health_data), v \in UpdateValues :
          (update_entry(i, "metric_value", v) /\ response'.kind = "success")
            => health_data'[i].value = v
     /\ (Analysis /\ response'.kind = "page") =>
          /\ PointsShown(response'.figures) = Len(health_data)
          /\ PointsShown(response'.combined) = Len(health_data)]_vars

C21_Witness ==
  /\ response.kind = "page"
  /\ stored = "created"
  /\ deleted = 1
  /\ Len(health_data) = 2 * Len(METRIC_NAMES) - 1
  /\ PointsShown(response.figures) = Len(health_data)

(* C22: update_entry answers a request whose field is not 'metric_value'   *)
(* with status 400 and leaves the database and the session as they were;   *)
(* a request it accepts has the field 'metric_value' and changes nothing   *)
(* but the value of the row with the given id.                             *)
C22_OnlyMetricValueUpdated ==
  [][\A entry_id \in 0..Len(health_data), field \in UpdateFields, v \in UpdateValues :
       update_entry(entry_id, field, v) =>
         /\ field # "metric_value" =>
              /\ response'.kind = "bad_request"
              /\ UNCHANGED <<health_data, in_session, stored>>
         /\ response'.kind = "success" =>
              /\ field = "metric_value"
              /\ Len(health_data') = Len(health_data)
              /\ \A j \in 1..Len(health_data) :
                   /\ health_data'[j].date = health_data[j].date
                   /\ health_data'[j].name = health_data[j].name
                   /\ health_data'[j].value = IF j = entry_id THEN v ELSE health_data[j].value]_vars

C22_Witness ==
  /\ response.kind = "success"
  /\ deleted = 1
  /\ Len(health_data) = Len(METRIC_NAMES)
  /\ \E i \in 1..Len(health_data) :
       /\ health_data[i].name = "Calories"
       /\ health_data[i].value \in UpdateValues
  /\ \E i \in 1..Len(health_data) :
       /\ health_data[i].name = "Mood"
       /\ health_data[i].value \notin UpdateValues

(* C23: whatever the order of the rows, the figure of a metric and its      *)
(* trace in the combined figure hold the dates of the metric's rows in      *)
(* ascending order, the same dates at the same positions, and the i-th      *)
(* value of the trace is the i-th value of the figure normalized.           *)
C23_SeriesDateOrdered ==
  response.kind = "page" =>
    /\ Len(response.combined) = Len(response.figures)
    /\ \A k \in 1..Len(response.figures) :
         LET f == response.figures[k]
             t == response.combined[k]
             b == BoundsFor(health_data, f.name)
         IN  /\ t.name = f.name
             /\ t.x = f.x
             /\ Len(f.y) = Len(f.x)
             /\ Len(t.y) = Len(f.y)
             /\ \A i, j \in 1..Len(f.x) : i < j => f.x[i] <= f.x[j]
             /\ \A d \in Dates :
                  Cardinality({i \in 1..Len(f.x) : f.x[i] = d})
                    = Cardinality(RowsOf(health_data, d, f.name))
             /\ \A i \in 1..Len(f.y) : NormalOf(t.y[i], f.y[i], b[1], b[2])

(* the rows of some metric are not in the order of their dates *)
C23_Witness ==
  /\ response.kind = "page"
  /\ \E i, j \in 1..Len(health_data) :
       /\ i < j
       /\ health_data[i].name = health_data[j].name
       /\ health_data[i].date > health_data[j].date
  /\ \E k \in 1..Len(response.figures) :
       /\ Len(response.figures[k].x) >= 2
       /\ response.figures[k].x[1] < response.figures[k].x[2]

(* C24: for every pair in the chart the two lists of values the            *)
(* coefficient is computed from have the same length and are paired by     *)
(* date: both hold, in date order, the readings of the dates that          *)
(* contribute to both, also when the rows name metrics that are not in     *)
(* METRIC_CONFIG.                                                          *)
ListUsed(data, n) == DictGet(aligned_of(data), n)

C24_PairedByDate ==
  Computed =>
    \A a, b \in NamesIn(health_data) :
      Reported(Chart, label(a, b)) =>
        /\ Len(ListUsed(health_data, a)) = Len(ListUsed(health_data, b))
        /\ ListUsed(health_data, a)
             = ValuesOver(health_data, a, PairDates(health_data, a, b))
        /\ ListUsed(health_data, b)
             = ValuesOver(health_data, b, PairDates(health_data, a, b))

(* C26: the chart does not depend on the order of the rows: the rows in    *)
(* reverse order, or with two neighbouring rows exchanged, give the same   *)
(* labels in the same sequence, the same coefficients and the same margin. *)
(* Stated for observation lists with one row per (date, metric), all of    *)
(* metrics of METRIC_CONFIG.                                               *)
Reversed(data) == [i \in 1..Len(data) |-> data[Len(data) + 1 - i]]

Exchanged(data, i) ==
  [j \in 1..Len(data) |->
     IF j = i THEN data[i + 1] ELSE IF j = i + 1 THEN data[i] ELSE data[j]]

C26_OrderIndependent ==
  (response.kind = "page" /\ Unique(health_data)) =>
    /\ calculate_correlations(Reversed(health_data)) = Chart
    /\ \A i \in 1..(Len(health_data) - 1) :
         calculate_correlations(Exchanged(health_data, i)) = Chart

(* C25: when two requests of one session that change the database are      *)
(* served at the same time, the database stored once both have returned    *)
(* holds the changes of both: the rows of two form submissions for         *)
(* different dates are all there, and a row one request deleted is gone    *)
(* while the rows the other submitted for another date are there.          *)
InTable(row) == \E i \in 1..Len(health_data) : health_data[i] = row

AllIn(rows) == \A k \in 1..Len(rows) : InTable(rows[k])

BothReturned == \A r \in Requests : conns[r].pc = "done"

TwoFormsOtherDates(r, q) ==
  /\ conns[r].added # <<>>
  /\ conns[q].added # <<>>
  /\ conns[r].added[1].date # conns[q].added[1].date

FormAndDeleteOtherDates(r, q) ==
  /\ conns[r].added # <<>>
  /\ conns[q].removed # <<>>
  /\ conns[r].added[1].date # conns[q].removed[1].date

C25_NoLostUpdate ==
  BothReturned =>
    \A r, q \in Requests :
      /\ TwoFormsOtherDates(r, q) => (AllIn(conns[r].added) /\ AllIn(conns[q].added))
      /\ FormAndDeleteOtherDates(r, q) =>
           (AllIn(conns[r].added) /\ ~InTable(conns[q].removed[1]))

====
